---------------------------- MODULE Spec2Model ----------------------------
(***************************************************************************)
(* Cosmic Watch: the rule-based risk scoring engine                        *)
(* (calculateRiskScore and calculateImpactEnergy of data/celestialData).   *)
(*                                                                         *)
(* Numbers are fixed-point integers:                                       *)
(*   distanceFromEarth  in 1/100 of a million km   (0.5 M km  is 50)       *)
(*   velocity           in 1/100 of a km/s         (35 km/s   is 3500)     *)
(*   radius, diameter   in 1/1000 of a km, i.e. m  (0.25 km   is 250)      *)
(*   percentage         in 1/1000 of a percent     (75 %      is 75000)    *)
(* A JavaScript value read from a body field is a record [k, v]: a number  *)
(* (k = "num"), NaN (k = "nan") or undefined, an absent field              *)
(* (k = "undef").                                                          *)
(***************************************************************************)
EXTENDS Integers, Sequences, FiniteSets, TLC

VARIABLES body, result,            \* one caller: argument and outcome
          heap, frames, calls,      \* concurrent callers of calculateRiskScore
          trendBody, trendAll, trend, \* getRiskTrend: arguments and outcome
          now,                      \* the browser's clock, in ticks
          localStorage,             \* the two keys useNotifications keeps
          dismissedIds, hasViewedPanel, lastViewedTime,  \* hook state
          alerts, renderedAt,       \* the memoized alert list and its `now`
          notificationOpen,         \* DashboardPage: the panel is open
          session,                  \* backend: the user kept in the session
          loginState,               \* history: "never", "established", "loggedOut"
          lastResponse,             \* backend: the answer to the latest request
          user, loading, error,     \* AuthProvider state
          path,                     \* the browser's location within the app
          authPc, logoutPc,         \* where checkAuth and logout stand
          fetched,                  \* what the page's latest fetch settled with
          mounts,                   \* document loads of the app so far
          selectedBody, explanation \* RiskExplanationPanel: prop and memo

riskVars == <<body, result>>

callVars == <<heap, frames, calls>>

trendVars == <<trendBody, trendAll, trend>>

hookVars ==
  <<now, localStorage, dismissedIds, hasViewedPanel, lastViewedTime,
    alerts, renderedAt, notificationOpen>>

authVars ==
  <<session, loginState, lastResponse, user, loading, error, path,
    authPc, logoutPc, fetched, mounts>>

explainVars == <<selectedBody, explanation>>

vars == <<riskVars, callVars, trendVars, hookVars, authVars, explainVars>>

---------------------------------------------------------------------------
(* Bounds of the model: the inputs tried around every threshold.           *)

Spread == 1

\* Callers that run calculateRiskScore at the same time.
NumCallers == 2

\* Longest allBodies handed to getRiskTrend.
MaxTrendBodies == 2

\* Last tick of the clock.
MaxNow == 3

\* Longest dismissed list.
MaxDismissed == 2

\* Model time advances in ticks; a day has this many.
TicksPerDay == 2

\* Document loads of the app that are followed.
MaxMounts == 3

Around(t) == (t - Spread)..(t + Spread)

---------------------------------------------------------------------------
(* JavaScript values and the operators the scorer applies to them.         *)

Num(n) == [k |-> "num", v |-> n]

NaN == [k |-> "nan", v |-> 0]

Undefined == [k |-> "undef", v |-> 0]

\* x < t for a number literal t: ToNumber(undefined) is NaN and every
\* comparison with NaN is false.
Lt(x, t) == x.k = "num" /\ x.v < t

\* x > t for a number literal t.
Gt(x, t) == x.k = "num" /\ x.v > t

\* x * 2: NaN for NaN and for undefined.
Times2(x) == IF x.k = "num" THEN Num(2 * x.v) ELSE NaN

\* x.toFixed(n) raises a TypeError when x is undefined (property read of
\* undefined); on every number, NaN included, it returns a string.
toFixedThrows(x) == x.k = "undef"

NullBody == [k |-> "null"]

UndefinedBody == [k |-> "undefined"]

ObjectBody(d, v, r) ==
  [k |-> "object", distanceFromEarth |-> d, velocity |-> v, radius |-> r]

notBodyMutNullOnly(b) == b.k = "null"

\* !body
notBody(b) == b.k \in {"null", "undefined"}

---------------------------------------------------------------------------
(* The three factors.                                                      *)

distanceFactorMutLe(d) ==
  IF d.k = "num" /\ d.v <= 50 THEN [score |-> 40, label |-> "CRITICAL proximity"]
  ELSE IF d.k = "num" /\ d.v <= 500 THEN [score |-> 30, label |-> "HIGH proximity"]
  ELSE IF d.k = "num" /\ d.v <= 5000 THEN [score |-> 20, label |-> "MEDIUM proximity"]
  ELSE [score |-> 10, label |-> "LOW proximity"]

distanceFactorMutValidated(d) ==
  IF ~Lt(d, 0) /\ Lt(d, 50) THEN [score |-> 40, label |-> "CRITICAL proximity"]
  ELSE IF ~Lt(d, 0) /\ Lt(d, 500) THEN [score |-> 30, label |-> "HIGH proximity"]
  ELSE IF ~Lt(d, 0) /\ Lt(d, 5000) THEN [score |-> 20, label |-> "MEDIUM proximity"]
  ELSE [score |-> 10, label |-> "LOW proximity"]

distanceFactorMutFloor(d) ==
  IF Lt(d, 50) THEN [score |-> 40, label |-> "CRITICAL proximity"]
  ELSE IF Lt(d, 500) THEN [score |-> 30, label |-> "HIGH proximity"]
  ELSE IF Lt(d, 5000) THEN [score |-> 20, label |-> "MEDIUM proximity"]
  ELSE [score |-> 0, label |-> "LOW proximity"]

\* distanceScore and the bucket named in distanceExplanation.
distanceFactor(d) ==
  IF Lt(d, 50) THEN [score |-> 40, label |-> "CRITICAL proximity"]
  ELSE IF Lt(d, 500) THEN [score |-> 30, label |-> "HIGH proximity"]
  ELSE IF Lt(d, 5000) THEN [score |-> 20, label |-> "MEDIUM proximity"]
  ELSE [score |-> 10, label |-> "LOW proximity"]

velocityFactorMutSwapped(v) ==
  IF Gt(v, 3500) THEN [score |-> 35, label |-> "CRITICAL velocity"]
  ELSE IF Gt(v, 3000) THEN [score |-> 15, label |-> "HIGH velocity"]
  ELSE IF Gt(v, 2500) THEN [score |-> 25, label |-> "MEDIUM velocity"]
  ELSE [score |-> 5, label |-> "LOW velocity"]

\* velocityScore and the bucket named in velocityExplanation.
velocityFactor(v) ==
  IF Gt(v, 3500) THEN [score |-> 35, label |-> "CRITICAL velocity"]
  ELSE IF Gt(v, 3000) THEN [score |-> 25, label |-> "HIGH velocity"]
  ELSE IF Gt(v, 2500) THEN [score |-> 15, label |-> "MEDIUM velocity"]
  ELSE [score |-> 5, label |-> "LOW velocity"]

sizeFactorMutNegated(dm) ==
  IF ~(dm.k = "num" /\ dm.v <= 250) THEN [score |-> 25, label |-> "LARGE object"]
  ELSE IF ~(dm.k = "num" /\ dm.v <= 150) THEN [score |-> 18, label |-> "MEDIUM object"]
  ELSE IF ~(dm.k = "num" /\ dm.v <= 80) THEN [score |-> 10, label |-> "SMALL object"]
  ELSE [score |-> 5, label |-> "TINY object"]

\* sizeScore and the bucket named in sizeExplanation, from estimatedDiameter.
sizeFactor(dm) ==
  IF Gt(dm, 250) THEN [score |-> 25, label |-> "LARGE object"]
  ELSE IF Gt(dm, 150) THEN [score |-> 18, label |-> "MEDIUM object"]
  ELSE IF Gt(dm, 80) THEN [score |-> 10, label |-> "SMALL object"]
  ELSE [score |-> 5, label |-> "TINY object"]

percentageMutWrongMax(score, max) == (score * 100000) \div 40

\* (score / max) * 100, in 1/1000 of a percent, truncated.
percentage(score, max) == (score * 100000) \div max

factorEntry(name, f, max) ==
  [name |-> name, score |-> f.score, max |-> max,
   percentage |-> percentage(f.score, max), explanation |-> f.label]

scoreTotalMutDropSize(ds, vs, ss) == 0 + ds + vs

\* let score = 0; score += distanceScore; score += velocityScore;
\* score += sizeScore; Math.round(score).  The sum of three integers is an
\* integer, which Math.round returns unchanged.
scoreTotal(ds, vs, ss) == 0 + ds + vs + ss

riskLevelMutHighAt71(score) ==
  IF score >= 71 THEN [level |-> "HIGH", color |-> "#ff006e"]
  ELSE IF score >= 31 THEN [level |-> "MEDIUM", color |-> "#ffbe0b"]
  ELSE [level |-> "LOW", color |-> "#00f0ff"]

riskLevelMutOneColor(score) ==
  IF score >= 66 THEN [level |-> "HIGH", color |-> "#ff006e"]
  ELSE IF score >= 31 THEN [level |-> "MEDIUM", color |-> "#00f0ff"]
  ELSE [level |-> "LOW", color |-> "#00f0ff"]

\* level and color from the unrounded score.
riskLevel(score) ==
  IF score >= 66 THEN [level |-> "HIGH", color |-> "#ff006e"]
  ELSE IF score >= 31 THEN [level |-> "MEDIUM", color |-> "#ffbe0b"]
  ELSE [level |-> "LOW", color |-> "#00f0ff"]

overallExplanation(level) ==
  CASE level = "HIGH" -> "HIGH RISK"
    [] level = "MEDIUM" -> "MEDIUM RISK"
    [] level = "LOW" -> "LOW RISK"

---------------------------------------------------------------------------
(* calculateImpactEnergy.                                                  *)

\* a * b < t for 0 < a, b < 10^8 and t = <<hi, mid, lo>> in base 10^4 with
\* hi unbounded, computed limb by limb to stay within 32 bits.
productBelow(a, b, t) ==
  LET a1 == a \div 10000
      a0 == a % 10000
      b1 == b \div 10000
      b0 == b % 10000
      lo == a0 * b0
      mid == a1 * b0 + a0 * b1 + (lo \div 10000)
      hi == a1 * b1 + (mid \div 10000)
      p == <<hi, mid % 10000, lo % 10000>>
  IN  \/ p[1] < t[1]
      \/ p[1] = t[1] /\ p[2] < t[2]
      \/ p[1] = t[1] /\ p[2] = t[2] /\ p[3] < t[3]

\* megatons = 0.5 * (4/3 * PI * (radius / 8 * 1000)^3 * 2500)
\*                * (velocity * 1000)^2 / 4.184e15
\*          = radius_m^3 * velocity_100^2 / 4091315907972.035...
\* megatons < bound, for bound = 1 (limit 4091315907973) and bound = 0.001
\* (limit 4091315908), on numbers.
megatonsBelow(r, v, limit) ==
  \/ r <= 0
  \/ v = 0
  \/ productBelow(r * r * r, v * v, limit)

\* The unit and precision of the returned string.  NaN fails both
\* comparisons and is formatted by the last branch.
calculateImpactEnergy(radius, velocity) ==
  IF radius.k # "num" \/ velocity.k # "num" THEN "NaN megatons"
  ELSE IF megatonsBelow(radius.v, velocity.v, <<40, 9131, 5908>>)
       THEN "toFixed(2) kilotons"
  ELSE IF megatonsBelow(radius.v, velocity.v, <<40913, 1590, 7973>>)
       THEN "toFixed(3) megatons"
  ELSE "toFixed(1) megatons"

---------------------------------------------------------------------------
(* calculateRiskScore.                                                     *)

Returned(a) == [kind |-> "returned", value |-> a]

Threw(e) == [kind |-> "threw", error |-> e]

noObjectSelected ==
  [score |-> 0, level |-> "LOW", color |-> "#00f0ff",
   explanation |-> "No object selected", factors |-> <<>>]

calculateRiskScore(b) ==
  IF notBody(b) THEN Returned(noObjectSelected)
  \* body.distanceFromEarth on null or undefined is a TypeError
  ELSE IF b.k # "object" THEN Threw("TypeError")
  ELSE
    LET df == distanceFactor(b.distanceFromEarth)
        vf == velocityFactor(b.velocity)
        estimatedDiameter == Times2(b.radius)
        sf == sizeFactor(estimatedDiameter)
        score == scoreTotal(df.score, vf.score, sf.score)
        lc == riskLevel(score)
    IN  IF toFixedThrows(b.distanceFromEarth) THEN Threw("TypeError")
        ELSE IF toFixedThrows(b.velocity) THEN Threw("TypeError")
        ELSE Returned(
          [score |-> score,
           level |-> lc.level,
           color |-> lc.color,
           explanation |-> overallExplanation(lc.level),
           factors |-> << factorEntry("Distance", df, 40),
                          factorEntry("Velocity", vf, 35),
                          factorEntry("Size", sf, 25) >>,
           details |-> [distance |-> b.distanceFromEarth,
                        velocity |-> b.velocity,
                        diameter |-> estimatedDiameter,
                        impactEnergy |->
                          calculateImpactEnergy(b.radius, b.velocity)]])

---------------------------------------------------------------------------
(* The catalog.  An id is the sequence of the pieces of its string, so     *)
(* that prefixing and String.replace act on it; closeApproachDate is a     *)
(* tick of model time or absent.                                           *)

Date(t) == [k |-> "date", v |-> t]

NoDate == [k |-> "undef", v |-> 0]

CatalogBody(id, d, v, r, date) ==
  [k |-> "object", id |-> id, distanceFromEarth |-> Num(d),
   velocity |-> Num(v), radius |-> Num(r), closeApproachDate |-> date]

\* Six tracked objects that between them are close and far, slow and fast,
\* with an approach on the first tick, exactly 30 days out, just beyond 30
\* days, and without a date.
celestialBodies ==
  << CatalogBody(<<"asteroid-", "itokawa">>, 999, 1000, 10,
                 Date(30 * TicksPerDay + 2)),
     CatalogBody(<<"asteroid-", "eros">>, 300, 1000, 10,
                 Date(30 * TicksPerDay)),
     CatalogBody(<<"red-", "alert-", "7">>, 52, 1000, 10, Date(2)),
     CatalogBody(<<"asteroid-", "apophis">>, 31, 3070, 80, Date(1)),
     CatalogBody(<<"asteroid-", "vesta">>, 1000, 4000, 280, Date(2)),
     CatalogBody(<<"asteroid-", "bennu">>, 31, 3070, 80, NoDate) >>

---------------------------------------------------------------------------
(* calculateRiskScore statement by statement, run by several callers on    *)
(* the shared catalog objects.  A call's score and factors live in the     *)
(* frame of that call.                                                     *)

Callers == 1..NumCallers

localCellMutShared(c) == 1

\* let score = 0; const factors = []; are locals of the invocation.
localCell(c) == c

NoOutcome == [kind |-> "none"]

IdleCall == [pc |-> "idle", arg |-> 0, out |-> NoOutcome]

EmptyFrame == [score |-> 0, factors |-> <<>>, estimatedDiameter |-> NaN]

\* The value a caller passes: null, or one of the catalog objects.
argBody(h, ref) == IF ref = 0 THEN NullBody ELSE h[ref]

pushFactor(fr, name, f, max) ==
  [fr EXCEPT !.score = @ + f.score,
             !.factors = Append(@, factorEntry(name, f, max))]

CallsInit ==
  /\ heap = celestialBodies
  /\ frames = [c \in Callers |-> EmptyFrame]
  /\ calls = [c \in Callers |-> IdleCall]

\* if (!body) return {...}; let score = 0; const factors = [];
Enter(c) ==
  /\ calls[c].pc = "idle"
  /\ \E ref \in 0..Len(heap) :
       IF notBody(argBody(heap, ref))
       THEN /\ calls' = [calls EXCEPT ![c] =
                 [pc |-> "done", arg |-> ref,
                  out |-> Returned(noObjectSelected)]]
            /\ UNCHANGED frames
       ELSE /\ calls' = [calls EXCEPT ![c] =
                 [pc |-> "distance", arg |-> ref, out |-> NoOutcome]]
            /\ frames' = [frames EXCEPT ![localCell(c)] = EmptyFrame]
  /\ UNCHANGED <<heap, riskVars, trendVars, hookVars, authVars, explainVars>>

\* FACTOR 1
DistanceStep(c) ==
  /\ calls[c].pc = "distance"
  /\ LET d == heap[calls[c].arg].distanceFromEarth
     IN  IF toFixedThrows(d)
         THEN /\ calls' = [calls EXCEPT ![c].pc = "done",
                                        ![c].out = Threw("TypeError")]
              /\ UNCHANGED frames
         ELSE /\ frames' = [frames EXCEPT ![localCell(c)] =
                   pushFactor(@, "Distance", distanceFactor(d), 40)]
              /\ calls' = [calls EXCEPT ![c].pc = "velocity"]
  /\ UNCHANGED <<heap, riskVars, trendVars, hookVars, authVars, explainVars>>

\* FACTOR 2
VelocityStep(c) ==
  /\ calls[c].pc = "velocity"
  /\ LET v == heap[calls[c].arg].velocity
     IN  IF toFixedThrows(v)
         THEN /\ calls' = [calls EXCEPT ![c].pc = "done",
                                        ![c].out = Threw("TypeError")]
              /\ UNCHANGED frames
         ELSE /\ frames' = [frames EXCEPT ![localCell(c)] =
                   pushFactor(@, "Velocity", velocityFactor(v), 35)]
              /\ calls' = [calls EXCEPT ![c].pc = "size"]
  /\ UNCHANGED <<heap, riskVars, trendVars, hookVars, authVars, explainVars>>

\* FACTOR 3
SizeStep(c) ==
  /\ calls[c].pc = "size"
  /\ LET dm == Times2(heap[calls[c].arg].radius)
     IN  /\ frames' = [frames EXCEPT ![localCell(c)] =
               [pushFactor(@, "Size", sizeFactor(dm), 25)
                  EXCEPT !.estimatedDiameter = dm]]
         /\ calls' = [calls EXCEPT ![c].pc = "return"]
  /\ UNCHANGED <<heap, riskVars, trendVars, hookVars, authVars, explainVars>>

\* DETERMINE RISK LEVEL & COLOR; return {...}
ReturnStep(c) ==
  /\ calls[c].pc = "return"
  /\ LET fr == frames[localCell(c)]
         b == heap[calls[c].arg]
         lc == riskLevel(fr.score)
     IN  calls' = [calls EXCEPT
           ![c].pc = "done",
           ![c].out = Returned(
             [score |-> fr.score,
              level |-> lc.level,
              color |-> lc.color,
              explanation |-> overallExplanation(lc.level),
              factors |-> fr.factors,
              details |-> [distance |-> b.distanceFromEarth,
                           velocity |-> b.velocity,
                           diameter |-> fr.estimatedDiameter,
                           impactEnergy |->
                             calculateImpactEnergy(b.radius, b.velocity)]])]
  /\ UNCHANGED <<heap, frames, riskVars, trendVars, hookVars, authVars, explainVars>>

\* The caller takes the outcome and is free to call again.
Collect(c) ==
  /\ calls[c].pc = "done"
  /\ calls' = [calls EXCEPT ![c] = IdleCall]
  /\ UNCHANGED <<heap, frames, riskVars, trendVars, hookVars, authVars, explainVars>>

---------------------------------------------------------------------------
(* getRiskTrend.  The average is kept as the exact fraction sum / length;  *)
(* a zero length makes it 0 / 0, which is NaN.                             *)

RECURSIVE sumScores(_)
\* allBodies.reduce((sum, b) => sum + calculateRiskScore(b).score, 0)
sumScores(all) ==
  IF all = <<>> THEN 0
  ELSE calculateRiskScore(Head(all)).value.score + sumScores(Tail(all))

\* Math.round of the fraction n / d, d > 0: the nearest integer, a half
\* going up.
mathRound(n, d) == (2 * n + d) \div (2 * d)

trendOfMutInclusive(diffNum, len) ==
  IF len > 0 /\ diffNum >= 15 * len THEN "ABOVE_AVERAGE"
  ELSE IF len > 0 /\ diffNum <= -15 * len THEN "BELOW_AVERAGE"
  ELSE "AVERAGE"

\* difference > 15 ? 'ABOVE_AVERAGE' : difference < -15 ? 'BELOW_AVERAGE'
\* : 'AVERAGE', for difference = diffNum / len; both comparisons are false
\* for NaN (len = 0).
trendOf(diffNum, len) ==
  IF len > 0 /\ diffNum > 15 * len THEN "ABOVE_AVERAGE"
  ELSE IF len > 0 /\ diffNum < -15 * len THEN "BELOW_AVERAGE"
  ELSE "AVERAGE"

getRiskTrend(b, all) ==
  IF calculateRiskScore(b).kind = "threw"
       \/ \E i \in 1..Len(all) : calculateRiskScore(all[i]).kind = "threw"
  THEN Threw("TypeError")
  ELSE
    LET current == calculateRiskScore(b).value.score
        len == Len(all)
        sum == sumScores(all)
        diffNum == current * len - sum
    IN  Returned(
          [current |-> current,
           average |-> IF len = 0 THEN NaN ELSE Num(mathRound(sum, len)),
           difference |->
             IF len = 0 THEN NaN ELSE Num(mathRound(diffNum, len)),
           trend |-> trendOf(diffNum, len)])

---------------------------------------------------------------------------
(* useNotifications.                                                       *)

ALERT_DAYS_THRESHOLD == 30

\* 10 M km, in 1/100 M km
ALERT_DISTANCE_THRESHOLD == 1000

NullTime == [k |-> "null", v |-> 0]

Time(t) == [k |-> "date", v |-> t]

\* localStorage.getItem of a key never set, or removed
NoItem(empty) == [k |-> "absent", v |-> empty]

\* the string localStorage holds for a value (JSON.stringify, toISOString)
Item(x) == [k |-> "string", v |-> x]

\* stored ? JSON.parse(stored) : []
loadDismissed(item) == IF item.k = "absent" THEN <<>> ELSE item.v

\* stored ? new Date(stored) : null
loadLastViewed(item) == IF item.k = "absent" THEN NullTime ELSE Time(item.v)

\* dismissedIds.includes(id)
includes(list, x) == \E i \in 1..Len(list) : list[i] = x

\* `alert-${body.id}`
alertIdOf(id) == <<"alert-">> \o id

RECURSIVE replaceFirstMutAll(_, _)
replaceFirstMutAll(str, piece) ==
  IF str = <<>> THEN <<>>
  ELSE IF Head(str) = piece THEN replaceFirstMutAll(Tail(str), piece)
  ELSE <<Head(str)>> \o replaceFirstMutAll(Tail(str), piece)

RECURSIVE replaceFirst(_, _)
\* str.replace(piece, ''): only the first occurrence goes
replaceFirst(str, piece) ==
  IF str = <<>> THEN <<>>
  ELSE IF Head(str) = piece THEN Tail(str)
  ELSE <<Head(str)>> \o replaceFirst(Tail(str), piece)

isEligibleMutVelocity(b, t, dismissed) ==
  /\ b.closeApproachDate.k # "undef"
  /\ b.closeApproachDate.v > t
  /\ b.closeApproachDate.v <= t + ALERT_DAYS_THRESHOLD * TicksPerDay
  /\ (Lt(b.distanceFromEarth, ALERT_DISTANCE_THRESHOLD)
        \/ Gt(b.velocity, 3000))
  /\ ~includes(dismissed, b.id)

\* The filter callback, for now = t.
isEligible(b, t, dismissed) ==
  /\ b.closeApproachDate.k # "undef"
  /\ b.closeApproachDate.v > t
  /\ b.closeApproachDate.v <= t + ALERT_DAYS_THRESHOLD * TicksPerDay
  /\ Lt(b.distanceFromEarth, ALERT_DISTANCE_THRESHOLD)
  /\ ~includes(dismissed, b.id)

\* Math.ceil(ms / (1000 * 60 * 60 * 24))
ceilDays(ticks) == -((-ticks) \div TicksPerDay)

\* The map callback.  Every catalog object carries numeric metrics, so
\* calculateRiskScore returns.
toAlert(b, t, viewed) ==
  LET riskData == calculateRiskScore(b).value
  IN  [id |-> alertIdOf(b.id),
       objectId |-> b.id,
       approachDate |-> b.closeApproachDate.v,
       daysUntilApproach |-> ceilDays(b.closeApproachDate.v - t),
       distanceFromEarth |-> b.distanceFromEarth,
       velocity |-> b.velocity,
       riskLevel |-> riskData.level,
       riskScore |-> riskData.score,
       riskColor |-> riskData.color,
       isNew |-> (viewed.k = "null" \/ b.closeApproachDate.v > viewed.v),
       createdAt |-> t]

riskOrder(level) ==
  CASE level = "HIGH" -> 3
    [] level = "MEDIUM" -> 2
    [] level = "LOW" -> 1

compareAlertsMutLaterFirst(a, b) ==
  LET riskDiff == riskOrder(b.riskLevel) - riskOrder(a.riskLevel)
  IN  IF riskDiff # 0 THEN riskDiff
      ELSE b.daysUntilApproach - a.daysUntilApproach

\* The sort callback.
compareAlerts(a, b) ==
  LET riskDiff == riskOrder(b.riskLevel) - riskOrder(a.riskLevel)
  IN  IF riskDiff # 0 THEN riskDiff
      ELSE a.daysUntilApproach - b.daysUntilApproach

RECURSIVE insertSorted(_, _)
\* x goes after every element that does not compare greater than it
insertSorted(sorted, x) ==
  IF sorted = <<>> THEN <<x>>
  ELSE IF compareAlerts(Head(sorted), x) <= 0
       THEN <<Head(sorted)>> \o insertSorted(Tail(sorted), x)
  ELSE <<x>> \o sorted

RECURSIVE sortAlerts(_)
\* Array.prototype.sort, which is stable
sortAlerts(list) ==
  IF list = <<>> THEN <<>>
  ELSE insertSorted(sortAlerts(SubSeq(list, 1, Len(list) - 1)),
                    list[Len(list)])

RECURSIVE filterMap(_, _, _, _)
\* celestialBodies.filter(...).map(...)
filterMap(list, t, dismissed, viewed) ==
  IF list = <<>> THEN <<>>
  ELSE (IF isEligible(Head(list), t, dismissed)
        THEN <<toAlert(Head(list), t, viewed)>> ELSE <<>>)
       \o filterMap(Tail(list), t, dismissed, viewed)

\* const alerts = useMemo(...), computed at now = t
computeAlerts(t, dismissed, viewed) ==
  sortAlerts(filterMap(celestialBodies, t, dismissed, viewed))

unreadCountMutAllBodies(list, viewed) ==
  IF ~viewed THEN Len(celestialBodies)
  ELSE Cardinality({i \in 1..Len(list) : list[i].isNew})

\* const unreadCount = useMemo(...)
unreadCount(list, viewed) ==
  IF ~viewed THEN Len(list)
  ELSE Cardinality({i \in 1..Len(list) : list[i].isNew})

\* The hook's first render, from what localStorage holds.
mount ==
  /\ dismissedIds' = loadDismissed(localStorage.dismissedNotifications)
  /\ hasViewedPanel' = FALSE
  /\ lastViewedTime' = loadLastViewed(localStorage.notificationsLastViewed)
  /\ alerts' = computeAlerts(now, dismissedIds', lastViewedTime')
  /\ renderedAt' = now
  /\ notificationOpen' = FALSE

HookInit ==
  /\ now = 0
  /\ localStorage = [dismissedNotifications |-> NoItem(<<>>),
                     notificationsLastViewed |-> NoItem(0)]
  /\ dismissedIds = <<>>
  /\ hasViewedPanel = FALSE
  /\ lastViewedTime = NullTime
  /\ alerts = computeAlerts(0, <<>>, NullTime)
  /\ renderedAt = 0
  /\ notificationOpen = FALSE

\* Time passes; nothing re-renders.
Tick ==
  /\ now < MaxNow
  /\ now' = now + 1
  /\ UNCHANGED <<localStorage, dismissedIds, hasViewedPanel, lastViewedTime,
                 alerts, renderedAt, notificationOpen>>
  /\ UNCHANGED <<riskVars, callVars, trendVars, authVars, explainVars>>

\* The body of markAsViewed and the render that the new lastViewedTime
\* causes.
markAsViewed ==
  /\ lastViewedTime' = Time(now)
  /\ hasViewedPanel' = TRUE
  /\ localStorage' = [localStorage EXCEPT !.notificationsLastViewed = Item(now)]
  /\ alerts' = computeAlerts(now, dismissedIds, lastViewedTime')
  /\ renderedAt' = now
  /\ UNCHANGED <<now, dismissedIds>>

MarkAsViewed ==
  /\ markAsViewed
  /\ UNCHANGED notificationOpen
  /\ UNCHANGED <<riskVars, callVars, trendVars, authVars, explainVars>>

\* DashboardPage.handleNotificationClick
HandleNotificationClick ==
  /\ notificationOpen' = TRUE
  /\ IF Len(alerts) > 0
     THEN markAsViewed
     ELSE UNCHANGED <<now, localStorage, dismissedIds, hasViewedPanel,
                      lastViewedTime, alerts, renderedAt>>
  /\ UNCHANGED <<riskVars, callVars, trendVars, authVars, explainVars>>

\* NotificationPanel onClose
ClosePanel ==
  /\ notificationOpen
  /\ notificationOpen' = FALSE
  /\ UNCHANGED <<now, localStorage, dismissedIds, hasViewedPanel,
                 lastViewedTime, alerts, renderedAt>>
  /\ UNCHANGED <<riskVars, callVars, trendVars, authVars, explainVars>>

dismissNotification(alertId) ==
  LET objectId == replaceFirst(alertId, "alert-")
      updated == Append(dismissedIds, objectId)
  IN  /\ dismissedIds' = updated
      /\ localStorage' =
           [localStorage EXCEPT !.dismissedNotifications = Item(updated)]
      /\ alerts' = computeAlerts(now, updated, lastViewedTime)
      /\ renderedAt' = now
      /\ UNCHANGED <<now, hasViewedPanel, lastViewedTime, notificationOpen>>

\* dismissNotification(alert.id), for the alert of any tracked object
DismissNotification ==
  /\ Len(dismissedIds) < MaxDismissed
  /\ \E i \in 1..Len(celestialBodies) :
       dismissNotification(alertIdOf(celestialBodies[i].id))
  /\ UNCHANGED <<riskVars, callVars, trendVars, authVars, explainVars>>

ClearDismissed ==
  /\ dismissedIds' = <<>>
  /\ localStorage' =
       [localStorage EXCEPT !.dismissedNotifications = NoItem(<<>>)]
  /\ alerts' = computeAlerts(now, <<>>, lastViewedTime)
  /\ renderedAt' = now
  /\ UNCHANGED <<now, hasViewedPanel, lastViewedTime, notificationOpen>>
  /\ UNCHANGED <<riskVars, callVars, trendVars, authVars, explainVars>>

ResetNotifications ==
  /\ dismissedIds' = <<>>
  /\ lastViewedTime' = NullTime
  /\ hasViewedPanel' = FALSE
  /\ localStorage' = [dismissedNotifications |-> NoItem(<<>>),
                      notificationsLastViewed |-> NoItem(0)]
  /\ alerts' = computeAlerts(now, <<>>, NullTime)
  /\ renderedAt' = now
  /\ UNCHANGED <<now, notificationOpen>>
  /\ UNCHANGED <<riskVars, callVars, trendVars, authVars, explainVars>>

\* The page is loaded again: component state is gone, localStorage stays.
Reload ==
  /\ mount
  /\ UNCHANGED <<now, localStorage>>
  /\ UNCHANGED <<riskVars, callVars, trendVars, authVars, explainVars>>

---------------------------------------------------------------------------
(* explainRiskFactors.  A contribution before rounding is kept as the      *)
(* exact fraction n / d; velocity is in 1/100 km/s, distance in 1/100      *)
(* million km and radius in 1/1000 km as everywhere else.                  *)

Frac(n, d) == [k |-> "num", n |-> n, d |-> d]

FracNaN == [k |-> "nan", n |-> 0, d |-> 1]

\* Math.min((velocity / 35) * 100, 100); NaN for NaN and undefined
velocityContribution(v) ==
  IF v.k # "num" THEN FracNaN
  ELSE IF v.v > 3500 THEN Frac(3500, 35)
  ELSE Frac(v.v, 35)

\* Math.min(((20 - distanceFromEarth) / 20) * 100, 100): capped above only
distanceContribution(d) ==
  IF d.k # "num" THEN FracNaN
  ELSE IF d.v < 0 THEN Frac(2000, 20)
  ELSE Frac(2000 - d.v, 20)

\* radius ? Math.min((radius / 0.5) * 100, 100) : 0; undefined, NaN and 0
\* are falsy
sizeContribution(r) ==
  IF r.k # "num" \/ r.v = 0 THEN Frac(0, 1)
  ELSE IF r.v > 500 THEN Frac(500, 5)
  ELSE Frac(r.v, 5)

\* a > b on the fractions; false when either is NaN
FracGt(a, b) == a.k = "num" /\ b.k = "num" /\ a.n * b.d > b.n * a.d

\* contribution > 70 ? 'high' : contribution > 40 ? 'medium' : 'low'
severity(c) ==
  IF FracGt(c, Frac(70, 1)) THEN "high"
  ELSE IF FracGt(c, Frac(40, 1)) THEN "medium"
  ELSE "low"

\* Distances d <= 21.00 at which ((20 - d) / 20) * 100 is an exact half but
\* its evaluation in IEEE doubles falls just below the half, so that
\* Math.round gives the integer below; at every other half up to 21.00 the
\* doubles give the half itself or just above it.
DoubleBelowHalf ==
  {-70, -50, 10, 210, 430, 850, 890, 930, 1090, 1130, 1230, 1430, 1530,
   1610, 1630, 1710, 1730, 1810, 1830, 1910, 1930, 2010, 2030}

\* Math.round(velocityContribution), Math.round(sizeContribution): these
\* are never at a half for inputs with two and three decimals.
roundContribution(c) ==
  IF c.k = "nan" THEN NaN ELSE Num(mathRound(c.n, c.d))

\* Math.round(distanceContribution) for the distance d
roundDistanceContribution(d, c) ==
  IF c.k = "nan" THEN NaN
  ELSE IF d.v \in DoubleBelowHalf /\ c.n < 2000
       THEN Num(mathRound(c.n, c.d) - 1)
  ELSE Num(mathRound(c.n, c.d))

\* primaryFactor: distance, unless velocity and then size exceed it
primaryFactorOf(vc, dc, sc) ==
  LET afterVelocity == IF FracGt(vc, dc) THEN <<"velocity", vc>>
                       ELSE <<"distance", dc>>
  IN  IF FracGt(sc, afterVelocity[2]) THEN "size" ELSE afterVelocity[1]

\* explainRiskFactors(body, riskData), riskData being a result of
\* calculateRiskScore
explainRiskFactors(b, riskData) ==
  IF notBody(b) THEN Returned([k |-> "null"])
  ELSE
    LET vc == velocityContribution(b.velocity)
        dc == distanceContribution(b.distanceFromEarth)
        sc == sizeContribution(b.radius)
    IN  \* velocity.toFixed(1), distanceFromEarth.toFixed(1)
        IF toFixedThrows(b.velocity) \/ toFixedThrows(b.distanceFromEarth)
        THEN Threw("TypeError")
        ELSE Returned(
          [k |-> "explanation",
           primaryFactor |-> primaryFactorOf(vc, dc, sc),
           factors |->
             [velocity |-> [contribution |-> roundContribution(vc),
                            severity |-> severity(vc)],
              distance |-> [contribution |->
                              roundDistanceContribution(b.distanceFromEarth, dc),
                            severity |-> severity(dc)],
              size |-> [contribution |-> roundContribution(sc),
                        severity |-> severity(sc)]],
           riskScore |-> riskData.score,
           riskLevel |-> riskData.level])

getContributionColor(contribution) ==
  IF contribution.k = "num" /\ contribution.v >= 70 THEN "#ff006e"
  ELSE IF contribution.k = "num" /\ contribution.v >= 40 THEN "#ffbe0b"
  ELSE "#00f0ff"

\* RiskExplanationPanel: riskData and explanation of the selected body
panelExplanation(b) ==
  IF notBody(b) THEN Returned([k |-> "null"])
  ELSE IF calculateRiskScore(b).kind = "threw" THEN calculateRiskScore(b)
  ELSE explainRiskFactors(b, calculateRiskScore(b).value)

---------------------------------------------------------------------------
(* Backend: routes/auth.js over the passport session.                      *)

NoUser == [k |-> "null", id |-> ""]

User(id) == [k |-> "user", id |-> id]

\* Google accounts that may sign in.
GoogleAccounts == {"astro", "nova"}

\* The verify callback of the strategy: the user object of a profile.
userOfProfile(id) == User(id)

\* serializeUser and deserializeUser hand the user object through.
serializeUser(u) == u

deserializeUser(stored) == stored

\* req.isAuthenticated(): the session carries a user
isAuthenticated(sess) == deserializeUser(sess).k = "user"

NoResponse == [route |-> "none", status |-> 0, success |-> FALSE,
               user |-> NoUser, message |-> ""]

\* router.get('/user')
userRoute(sess) ==
  IF isAuthenticated(sess)
  THEN [route |-> "GET /auth/user", status |-> 200, success |-> TRUE,
        user |-> deserializeUser(sess), message |-> ""]
  ELSE [route |-> "GET /auth/user", status |-> 401, success |-> FALSE,
        user |-> NoUser, message |-> "Not authenticated"]

sessionAfterLogoutMutKept(sess) == sess

\* req.logout: the user leaves the session.  The session store is the
\* default in-memory one, which reports no error.
sessionAfterLogout(sess) == NoUser

\* router.post('/logout'), err being null
logoutRoute ==
  [route |-> "POST /auth/logout", status |-> 200, success |-> TRUE,
   user |-> NoUser, message |-> "Logged out successfully"]

\* router.get('/google/callback') after passport.authenticate
callbackRoute(ok) ==
  [route |-> "GET /auth/google/callback", status |-> 302, success |-> ok,
   user |-> NoUser,
   message |-> IF ok THEN "?auth=success" ELSE "/login?error=auth_failed"]

---------------------------------------------------------------------------
(* Frontend: AuthProvider, ProtectedRoute and the routes of App.           *)

Paths == {"/", "/login", "/elsewhere"}

protectedRouteMutNoSpinner(isAuth, isLoading) ==
  IF isAuth THEN "DashboardPage" ELSE "Navigate /login"

\* ProtectedRoute around DashboardPage
protectedRoute(isAuth, isLoading) ==
  IF isLoading THEN "Spinner"
  ELSE IF isAuth THEN "DashboardPage"
  ELSE "Navigate /login"

\* isAuthenticated: !!user
isAuthenticatedValue(u) == u.k = "user"

\* What <Routes> renders.
rendered(p, u, isLoading) ==
  CASE p = "/login" -> "Login"
    [] p = "/" -> protectedRoute(isAuthenticatedValue(u), isLoading)
    [] OTHER -> "Navigate /"

\* What a fetch settles with: a response, or a rejection (the request
\* failed).  response.ok is a status in 200..299; parsable says whether
\* response.json() resolves.
Response(call, status, parsable, success, u) ==
  [call |-> call, kind |-> "response", ok |-> status \in 200..299,
   status |-> status, parsable |-> parsable, success |-> success, user |-> u]

Rejection(call) ==
  [call |-> call, kind |-> "throws", ok |-> FALSE, status |-> 0,
   parsable |-> FALSE, success |-> FALSE, user |-> NoUser]

NoFetch ==
  [call |-> "none", kind |-> "none", ok |-> FALSE, status |-> 0,
   parsable |-> FALSE, success |-> FALSE, user |-> NoUser]

\* The backend's JSON answer as the fetch delivers it.
fromBackend(call, resp) ==
  Response(call, resp.status, TRUE, resp.success, resp.user)

\* Outcomes of a fetch that the backend's routes do not produce: a failed
\* request, an ok status with a body that is not JSON, an ok status with
\* success: false, and a status that is not ok.
OtherOutcomes(call) ==
  {Rejection(call),
   Response(call, 200, FALSE, FALSE, NoUser),
   Response(call, 200, TRUE, FALSE, NoUser),
   Response(call, 500, TRUE, FALSE, NoUser)}

\* checkAuth, try block: if (response.ok) { data = await response.json();
\* if (data.success) setUser(data.user) }
userAfterCheckAuth(o, u) ==
  IF o.kind = "response" /\ o.ok /\ o.parsable /\ o.success
  THEN o.user ELSE u

\* checkAuth, catch block: setError(err.message); fetch rejects, or
\* response.json() rejects on an ok response
errorAfterCheckAuth(o, e) ==
  IF o.kind = "throws" THEN "Failed to fetch"
  ELSE IF o.ok /\ ~o.parsable THEN "Unexpected token"
  ELSE e

afterCheckAuthTryMutNoFinally(o) ==
  IF o.kind = "throws" \/ (o.ok /\ ~o.parsable) THEN "done" ELSE "finally"

\* checkAuth: the finally block follows the try and the catch block alike
afterCheckAuthTry(o) == "finally"

userAfterLogoutMutAlways(o, u) == NoUser

\* logout, try block: if (response.ok) { setUser(null); ... }
userAfterLogout(o, u) ==
  IF o.kind = "response" /\ o.ok THEN NoUser ELSE u

\* logout, catch block: setError(err.message)
errorAfterLogout(o, e) ==
  IF o.kind = "throws" THEN "Failed to fetch" ELSE e

\* logout: window.location.href = '/login' is pending after an ok response
afterLogoutTry(o) ==
  IF o.kind = "response" /\ o.ok THEN "redirect" ELSE "idle"

\* A document load of the app: AuthProvider mounts and starts checkAuth.
pageLoad(p) ==
  /\ mounts < MaxMounts
  /\ mounts' = mounts + 1
  /\ fetched' = NoFetch
  /\ user' = NoUser
  /\ loading' = TRUE
  /\ error' = "null"
  /\ path' = p
  /\ authPc' = "fetch"
  /\ logoutPc' = "idle"

AuthInit ==
  /\ session = NoUser
  /\ loginState = "never"
  /\ lastResponse = NoResponse
  /\ user = NoUser
  /\ loading = TRUE
  /\ error = "null"
  /\ path = "/"
  /\ authPc = "fetch"
  /\ logoutPc = "idle"
  /\ fetched = NoFetch
  /\ mounts = 1

\* The user opens or reloads the app at some URL.
PageLoad ==
  /\ \E p \in Paths : pageLoad(p)
  /\ UNCHANGED <<session, loginState, lastResponse>>
  /\ UNCHANGED <<riskVars, callVars, trendVars, hookVars, explainVars>>

\* The browser goes through /auth/google and Google to the callback; on
\* success req.login puts the user into the session.  The redirect loads
\* the app again.
GoogleCallback ==
  /\ \/ \E id \in GoogleAccounts :
          /\ session' = serializeUser(userOfProfile(id))
          /\ loginState' = "established"
          /\ lastResponse' = callbackRoute(TRUE)
          /\ pageLoad("/")
     \/ /\ lastResponse' = callbackRoute(FALSE)
        /\ pageLoad("/login")
        /\ UNCHANGED <<session, loginState>>
  /\ UNCHANGED <<riskVars, callVars, trendVars, hookVars, explainVars>>

\* GET /auth/user from any client holding the session cookie
GetUserRequest ==
  /\ lastResponse' = userRoute(session)
  /\ UNCHANGED <<session, loginState, user, loading, error, path,
                 authPc, logoutPc, fetched, mounts>>
  /\ UNCHANGED <<riskVars, callVars, trendVars, hookVars, explainVars>>

\* POST /auth/logout from any client holding the session cookie
LogoutRequest ==
  /\ session' = sessionAfterLogout(session)
  /\ loginState' = IF loginState = "never" THEN "never" ELSE "loggedOut"
  /\ lastResponse' = logoutRoute
  /\ UNCHANGED <<user, loading, error, path, authPc, logoutPc, fetched,
                 mounts>>
  /\ UNCHANGED <<riskVars, callVars, trendVars, hookVars, explainVars>>

\* checkAuth: the fetch of /auth/user settles; try and catch blocks.
CheckAuthSettles ==
  /\ authPc = "fetch"
  /\ \/ \* the backend answers
        /\ lastResponse' = userRoute(session)
        /\ fetched' = fromBackend("checkAuth", lastResponse')
     \/ /\ fetched' \in OtherOutcomes("checkAuth")
        /\ UNCHANGED lastResponse
  /\ user' = userAfterCheckAuth(fetched', user)
  /\ error' = errorAfterCheckAuth(fetched', error)
  /\ authPc' = afterCheckAuthTry(fetched')
  /\ UNCHANGED <<session, loginState, loading, path, logoutPc, mounts>>
  /\ UNCHANGED <<riskVars, callVars, trendVars, hookVars, explainVars>>

\* checkAuth: finally { setLoading(false) }
CheckAuthFinally ==
  /\ authPc = "finally"
  /\ loading' = FALSE
  /\ authPc' = "done"
  /\ UNCHANGED <<session, loginState, lastResponse, user, error, path,
                 logoutPc, fetched, mounts>>
  /\ UNCHANGED <<riskVars, callVars, trendVars, hookVars, explainVars>>

\* <Navigate to="/login" replace /> and <Navigate to="/" replace />
FollowNavigate ==
  /\ \/ /\ rendered(path, user, loading) = "Navigate /login"
        /\ path' = "/login"
     \/ /\ rendered(path, user, loading) = "Navigate /"
        /\ path' = "/"
  /\ UNCHANGED <<session, loginState, lastResponse, user, loading, error,
                 authPc, logoutPc, fetched, mounts>>
  /\ UNCHANGED <<riskVars, callVars, trendVars, hookVars, explainVars>>

\* logout, from the profile menu of the dashboard: the fetch of POST
\* /auth/logout settles; try and catch blocks.
LogoutSettles ==
  /\ rendered(path, user, loading) = "DashboardPage"
  /\ logoutPc = "idle"
  /\ \/ \* the backend answers
        /\ session' = sessionAfterLogout(session)
        /\ loginState' = IF loginState = "never" THEN "never" ELSE "loggedOut"
        /\ lastResponse' = logoutRoute
        /\ fetched' = fromBackend("logout", lastResponse')
     \/ /\ fetched' \in OtherOutcomes("logout")
        /\ UNCHANGED <<session, loginState, lastResponse>>
  /\ user' = userAfterLogout(fetched', user)
  /\ error' = errorAfterLogout(fetched', error)
  /\ logoutPc' = afterLogoutTry(fetched')
  /\ UNCHANGED <<loading, path, authPc, mounts>>
  /\ UNCHANGED <<riskVars, callVars, trendVars, hookVars, explainVars>>

\* logout: window.location.href = '/login'
LogoutRedirect ==
  /\ logoutPc = "redirect"
  /\ pageLoad("/login")
  /\ UNCHANGED <<session, loginState, lastResponse>>
  /\ UNCHANGED <<riskVars, callVars, trendVars, hookVars, explainVars>>

---------------------------------------------------------------------------
(* Inputs.                                                                 *)

DistanceNumbers ==
  {-100, 0, 31, 20380} \cup Around(50) \cup Around(500) \cup Around(5000)

VelocityNumbers ==
  {-100, 0, 1934, 3070} \cup Around(2500) \cup Around(3000) \cup Around(3500)

RadiusNumbers ==
  {-10, 0, 80, 280} \cup Around(40) \cup Around(75) \cup Around(125)

JsValues(S) == {Num(n) : n \in S} \cup {NaN, Undefined}

Bodies ==
  {ObjectBody(d, v, r) : d \in JsValues(DistanceNumbers),
                         v \in JsValues(VelocityNumbers),
                         r \in JsValues(RadiusNumbers)}

\* Bodies handed to getRiskTrend: null (score 0), five objects scoring 20,
\* 25, 33, 35 and 40, and one without distanceFromEarth.
\* Inputs of the explanation panel: also around 20 million km and
\* 0.5 km, where the contributions are capped.
ExplainDistances == DistanceNumbers \cup Around(2000) \cup {10, 1990, 2010}

ExplainRadii == RadiusNumbers \cup Around(500)

TrendPool ==
  { NullBody,
    ObjectBody(Num(5000), Num(0), Num(0)),
    ObjectBody(Num(5000), Num(0), Num(41)),
    ObjectBody(Num(5000), Num(0), Num(76)),
    ObjectBody(Num(5000), Num(2501), Num(0)),
    ObjectBody(Num(20380), Num(1934), Num(280)),
    ObjectBody(Undefined, Num(1934), Num(280)) }

---------------------------------------------------------------------------
(* State machine: a caller holds a body and the outcome of                 *)
(* calculateRiskScore(body).                                               *)

ExplainInit ==
  /\ selectedBody = NullBody
  /\ explanation = panelExplanation(selectedBody)

RiskInit ==
  /\ body \in {NullBody, UndefinedBody}
  /\ result = calculateRiskScore(body)

TrendInit ==
  /\ trendBody = NullBody
  /\ trendAll = <<>>
  /\ trend = getRiskTrend(trendBody, trendAll)

Init ==
  /\ RiskInit
  /\ CallsInit
  /\ TrendInit
  /\ HookInit
  /\ AuthInit
  /\ ExplainInit

\* calculateRiskScore(null)
CallNull ==
  /\ body' = NullBody
  /\ result' = calculateRiskScore(body')
  /\ UNCHANGED <<callVars, trendVars, hookVars, authVars, explainVars>>

\* calculateRiskScore(undefined)
CallUndefined ==
  /\ body' = UndefinedBody
  /\ result' = calculateRiskScore(body')
  /\ UNCHANGED <<callVars, trendVars, hookVars, authVars, explainVars>>

\* calculateRiskScore(b) on a body picked while none was held
CallObject ==
  /\ notBody(body)
  /\ \E b \in Bodies :
       /\ body' = b
       /\ result' = calculateRiskScore(body')
  /\ UNCHANGED <<callVars, trendVars, hookVars, authVars, explainVars>>

\* calculateRiskScore on a body that differs from the held one in
\* distanceFromEarth only
CallOtherDistance ==
  /\ body.k = "object"
  /\ \E d \in JsValues(DistanceNumbers) :
       /\ d # body.distanceFromEarth
       /\ body' = [body EXCEPT !.distanceFromEarth = d]
       /\ result' = calculateRiskScore(body')
  /\ UNCHANGED <<callVars, trendVars, hookVars, authVars, explainVars>>

\* ... in velocity only
CallOtherVelocity ==
  /\ body.k = "object"
  /\ \E v \in JsValues(VelocityNumbers) :
       /\ v # body.velocity
       /\ body' = [body EXCEPT !.velocity = v]
       /\ result' = calculateRiskScore(body')
  /\ UNCHANGED <<callVars, trendVars, hookVars, authVars, explainVars>>

\* ... in radius only
CallOtherRadius ==
  /\ body.k = "object"
  /\ \E r \in JsValues(RadiusNumbers) :
       /\ r # body.radius
       /\ body' = [body EXCEPT !.radius = r]
       /\ result' = calculateRiskScore(body')
  /\ UNCHANGED <<callVars, trendVars, hookVars, authVars, explainVars>>

Next ==
  \/ CallNull
  \/ CallUndefined
  \/ CallObject
  \/ CallOtherDistance
  \/ CallOtherVelocity
  \/ CallOtherRadius

Spec == Init /\ [][Next]_vars

\* Several callers, each running calculateRiskScore a statement at a time.
CallersInit ==
  /\ body = NullBody
  /\ result = calculateRiskScore(body)
  /\ CallsInit
  /\ TrendInit
  /\ HookInit
  /\ AuthInit
  /\ ExplainInit

CallersNext ==
  \E c \in Callers :
    \/ Enter(c)
    \/ DistanceStep(c)
    \/ VelocityStep(c)
    \/ SizeStep(c)
    \/ ReturnStep(c)
    \/ Collect(c)

SpecCallers == CallersInit /\ [][CallersNext]_vars

\* getRiskTrend(b, allBodies) for another body
TrendOtherBody ==
  /\ \E b \in TrendPool :
       /\ trendBody' = b
       /\ trendAll' = trendAll
       /\ trend' = getRiskTrend(trendBody', trendAll')
  /\ UNCHANGED <<riskVars, callVars, hookVars, authVars, explainVars>>

\* getRiskTrend(body, allBodies) after one more body is tracked
TrendMoreBodies ==
  /\ Len(trendAll) < MaxTrendBodies
  /\ \E x \in TrendPool :
       /\ trendAll' = Append(trendAll, x)
       /\ trendBody' = trendBody
       /\ trend' = getRiskTrend(trendBody', trendAll')
  /\ UNCHANGED <<riskVars, callVars, hookVars, authVars, explainVars>>

\* getRiskTrend(body, []) once nothing is tracked
TrendNoBodies ==
  /\ trendAll' = <<>>
  /\ trendBody' = trendBody
  /\ trend' = getRiskTrend(trendBody', trendAll')
  /\ UNCHANGED <<riskVars, callVars, hookVars, authVars, explainVars>>

TrendNext ==
  \/ TrendOtherBody
  \/ TrendMoreBodies
  \/ TrendNoBodies

SpecTrend == CallersInit /\ [][TrendNext]_vars

\* The notification hook inside DashboardPage.
HookNext ==
  \/ Tick
  \/ MarkAsViewed
  \/ HandleNotificationClick
  \/ ClosePanel
  \/ DismissNotification
  \/ ClearDismissed
  \/ ResetNotifications
  \/ Reload

SpecHook == CallersInit /\ [][HookNext]_vars

\* The backend session and the frontend's authentication state.
AuthNext ==
  \/ PageLoad
  \/ GoogleCallback
  \/ GetUserRequest
  \/ LogoutRequest
  \/ CheckAuthSettles
  \/ CheckAuthFinally
  \/ FollowNavigate
  \/ LogoutSettles
  \/ LogoutRedirect

SpecAuth == CallersInit /\ [][AuthNext]_vars

\* The same with the scheduling of checkAuth: a pending fetch settles, and
\* the continuation of an async function runs once its promise has settled.
SpecAuthLive ==
  /\ CallersInit
  /\ [][AuthNext]_vars
  /\ WF_vars(CheckAuthSettles)
  /\ WF_vars(CheckAuthFinally)

\* The explanation panel: nothing selected
Deselect ==
  /\ selectedBody' = NullBody
  /\ explanation' = panelExplanation(selectedBody')
  /\ UNCHANGED <<riskVars, callVars, trendVars, hookVars, authVars>>

\* a body is selected while none was
SelectBody ==
  /\ notBody(selectedBody)
  /\ \E d \in JsValues(ExplainDistances), v \in JsValues(VelocityNumbers),
        r \in JsValues(ExplainRadii) :
       selectedBody' = ObjectBody(d, v, r)
  /\ explanation' = panelExplanation(selectedBody')
  /\ UNCHANGED <<riskVars, callVars, trendVars, hookVars, authVars>>

\* another body is selected, differing in distanceFromEarth only
SelectOtherDistance ==
  /\ selectedBody.k = "object"
  /\ \E d \in JsValues(ExplainDistances) :
       /\ d # selectedBody.distanceFromEarth
       /\ selectedBody' = [selectedBody EXCEPT !.distanceFromEarth = d]
  /\ explanation' = panelExplanation(selectedBody')
  /\ UNCHANGED <<riskVars, callVars, trendVars, hookVars, authVars>>

\* ... in velocity only
SelectOtherVelocity ==
  /\ selectedBody.k = "object"
  /\ \E v \in JsValues(VelocityNumbers) :
       /\ v # selectedBody.velocity
       /\ selectedBody' = [selectedBody EXCEPT !.velocity = v]
  /\ explanation' = panelExplanation(selectedBody')
  /\ UNCHANGED <<riskVars, callVars, trendVars, hookVars, authVars>>

\* ... in radius only
SelectOtherRadius ==
  /\ selectedBody.k = "object"
  /\ \E r \in JsValues(ExplainRadii) :
       /\ r # selectedBody.radius
       /\ selectedBody' = [selectedBody EXCEPT !.radius = r]
  /\ explanation' = panelExplanation(selectedBody')
  /\ UNCHANGED <<riskVars, callVars, trendVars, hookVars, authVars>>

ExplainNext ==
  \/ Deselect
  \/ SelectBody
  \/ SelectOtherDistance
  \/ SelectOtherVelocity
  \/ SelectOtherRadius

SpecExplain == CallersInit /\ [][ExplainNext]_vars

---------------------------------------------------------------------------
(* Properties.                                                             *)

\* Every field of the body is a number (not NaN, not absent).
Numeric(b) ==
  /\ b.k = "object"
  /\ b.distanceFromEarth.k = "num"
  /\ b.velocity.k = "num"
  /\ b.radius.k = "num"

\* The bucket tables as the specification states them, on numbers.
TableD(d) ==
  CASE d < 50 -> 40
    [] d >= 50 /\ d < 500 -> 30
    [] d >= 500 /\ d < 5000 -> 20
    [] d >= 5000 -> 10

TableV(v) ==
  CASE v > 3500 -> 35
    [] v <= 3500 /\ v > 3000 -> 25
    [] v <= 3000 /\ v > 2500 -> 15
    [] v <= 2500 -> 5

TableS(dm) ==
  CASE dm > 250 -> 25
    [] dm <= 250 /\ dm > 150 -> 18
    [] dm <= 150 /\ dm > 80 -> 10
    [] dm <= 80 -> 5

RECURSIVE SumScores(_)
SumScores(f) == IF f = <<>> THEN 0 ELSE f[1].score + SumScores(Tail(f))

LevelMatchesScore(a) ==
  /\ a.level = "HIGH" <=> a.score >= 66
  /\ a.level = "MEDIUM" <=> (31 <= a.score /\ a.score < 66)
  /\ a.level = "LOW" <=> a.score < 31

C2_ScoreIsSumOfFactors ==
  result.kind = "returned" =>
    result.value.score = SumScores(result.value.factors)

C2_Witness ==
  /\ body = ObjectBody(Num(31), Num(3070), Num(80))
  /\ result.kind = "returned"
  /\ Len(result.value.factors) = 3
  /\ result.value.score = 83

\* C3: for a body whose three metrics are numbers >= 0 the call does not
\* raise and the score is an integer in [15, 100].
C3_ScoreRange ==
  (/\ Numeric(body)
   /\ body.distanceFromEarth.v >= 0
   /\ body.velocity.v >= 0
   /\ body.radius.v >= 0) =>
    /\ result.kind = "returned"
    /\ result.value.score \in 15..100

\* The lowest bucket of every table at once.
C3_Witness ==
  /\ Numeric(body)
  /\ body.distanceFromEarth.v >= 5000
  /\ body.velocity.v = 0
  /\ body.radius.v = 0
  /\ result.kind = "returned"
  /\ result.value.score = 20

\* C4: in every result level is HIGH iff score >= 66, MEDIUM iff
\* 31 <= score < 66 and LOW iff score < 31.
C4_LevelFromScore ==
  result.kind = "returned" => LevelMatchesScore(result.value)

\* The HIGH score closest to the threshold that three buckets can sum to.
C4_Witness ==
  /\ result.kind = "returned"
  /\ body.k = "object"
  /\ result.value.score = 70
  /\ result.value.level = "HIGH"

\* C5: between two calls on numeric bodies that differ in one metric only,
\* a distance that is not larger gives a distance score and a total that
\* are not lower, and a velocity (a radius) that is not smaller gives a
\* total that is not lower.
C5_Monotone ==
  [][ (/\ Numeric(body) /\ Numeric(body')
       /\ result.kind = "returned" /\ result'.kind = "returned") =>
      LET a == result.value
          b == result'.value
          sameD == body'.distanceFromEarth = body.distanceFromEarth
          sameV == body'.velocity = body.velocity
          sameR == body'.radius = body.radius
      IN  /\ (sameV /\ sameR /\
               body'.distanceFromEarth.v <= body.distanceFromEarth.v) =>
                /\ b.factors[1].score >= a.factors[1].score
                /\ b.score >= a.score
          /\ (sameD /\ sameR /\ body'.velocity.v >= body.velocity.v) =>
                b.score >= a.score
          /\ (sameD /\ sameV /\ body'.radius.v >= body.radius.v) =>
                b.score >= a.score ]_vars

\* A body just inside the closest distance, fastest velocity and largest
\* size buckets has been scored.
C5_Witness ==
  /\ body = ObjectBody(Num(49), Num(3501), Num(126))
  /\ result.kind = "returned"
  /\ result.value.score = 100

\* C6: a null or undefined body does not raise and gives score 0, level
\* LOW, explanation 'No object selected'.
C6_NullBody ==
  body.k \in {"null", "undefined"} =>
    /\ result.kind = "returned"
    /\ result.value.score = 0
    /\ result.value.level = "LOW"
    /\ result.value.explanation = "No object selected"

C6_Witness ==
  /\ body = UndefinedBody
  /\ result.kind = "returned"
  /\ result.value.explanation = "No object selected"

\* C7: no call on a non-null body raises, whatever the body's shape, an
\* absent distanceFromEarth, velocity or radius included.
C7_NeverRaises ==
  body.k = "object" => result.kind = "returned"

\* C8: with numeric distanceFromEarth and velocity and no radius the call
\* does not raise, the size score is 5 and the total is D + V + 5.
C8_MissingRadius ==
  (/\ body.k = "object"
   /\ body.distanceFromEarth.k = "num"
   /\ body.velocity.k = "num"
   /\ body.radius = Undefined) =>
    /\ result.kind = "returned"
    /\ result.value.factors[3].score = 5
    /\ result.value.score =
         TableD(body.distanceFromEarth.v) + TableV(body.velocity.v) + 5

C8_Witness ==
  /\ body = ObjectBody(Num(31), Num(3070), Undefined)
  /\ result.kind = "returned"
  /\ result.value.score = 40 + 25 + 5
  /\ result.value.details.impactEnergy = "NaN megatons"

\* C9: a numeric body with a negative metric does not raise and gets a
\* well-formed assessment (three factors, score in [0, 100], level
\* matching the score) in which a negative distance is in the < 0.5 bucket,
\* a negative velocity in the not-above-25 bucket and a negative radius in
\* the not-above-0.08 bucket.
C9_NegativeMetrics ==
  (/\ Numeric(body)
   /\ \/ body.distanceFromEarth.v < 0
      \/ body.velocity.v < 0
      \/ body.radius.v < 0) =>
    /\ result.kind = "returned"
    /\ LET a == result.value
       IN  /\ Len(a.factors) = 3
           /\ a.score \in 0..100
           /\ LevelMatchesScore(a)
           /\ body.distanceFromEarth.v < 0 =>
                /\ a.factors[1].score = 40
                /\ a.factors[1].explanation = "CRITICAL proximity"
           /\ body.velocity.v < 0 =>
                /\ a.factors[2].score = 5
                /\ a.factors[2].explanation = "LOW velocity"
           /\ body.radius.v < 0 =>
                /\ a.factors[3].score = 5
                /\ a.factors[3].explanation = "TINY object"

C9_Witness ==
  /\ body = ObjectBody(Num(-100), Num(-100), Num(-10))
  /\ result.kind = "returned"
  /\ result.value.score = 40 + 5 + 5

FactorsWellFormed(a) ==
  /\ Len(a.factors) = 3
  /\ <<a.factors[1].name, a.factors[2].name, a.factors[3].name>> =
       <<"Distance", "Velocity", "Size">>
  /\ <<a.factors[1].max, a.factors[2].max, a.factors[3].max>> =
       <<40, 35, 25>>
  /\ \A i \in 1..3 :
       LET f == a.factors[i]
       IN  /\ f.score \in 0..f.max
           \* percentage is score / max * 100 up to the last digit kept
           /\ f.percentage * f.max <= f.score * 100000
           /\ f.score * 100000 < (f.percentage + 1) * f.max

\* C10 as stated: every assessment returned carries exactly three factors,
\* Distance, Velocity, Size, with max 40, 35, 25, each score in 0..max and
\* percentage = score / max * 100.
C10_EveryResultThreeFactors ==
  result.kind = "returned" => FactorsWellFormed(result.value)

\* C10 as amended: every assessment returned for a body that is neither
\* null nor undefined carries exactly three factors, Distance, Velocity,
\* Size, with max 40, 35, 25, each score in 0..max and
\* percentage = score / max * 100; the assessment of a null or undefined
\* body carries an empty factors list.
C10_ObjectResultThreeFactors ==
  result.kind = "returned" =>
    IF body.k = "object" THEN FactorsWellFormed(result.value)
    ELSE result.value.factors = <<>>

C10_Witness ==
  /\ body = ObjectBody(Num(500), Num(3001), Num(76))
  /\ result.kind = "returned"
  /\ result.value.factors[2].percentage = 71428

\* C11: in every result, the null-body result included, color and level
\* determine each other: HIGH with '#ff006e', MEDIUM with '#ffbe0b', LOW
\* with '#00f0ff'.
C11_ColorLevelOneToOne ==
  result.kind = "returned" =>
    /\ result.value.level \in {"HIGH", "MEDIUM", "LOW"}
    /\ result.value.level = "HIGH" <=> result.value.color = "#ff006e"
    /\ result.value.level = "MEDIUM" <=> result.value.color = "#ffbe0b"
    /\ result.value.level = "LOW" <=> result.value.color = "#00f0ff"

C11_Witness ==
  /\ body.k = "object"
  /\ result.kind = "returned"
  /\ result.value.level = "MEDIUM"
  /\ result.value.color = "#ffbe0b"

\* C12: a call leaves the body it was given unchanged and touches nothing
\* outside its own invocation: however the statements of concurrent calls
\* interleave, every finished call has the outcome of the same call made
\* alone, and the catalog objects are as they were.
C12_CallsIndependent ==
  /\ heap = celestialBodies
  /\ \A c \in Callers :
       calls[c].pc = "done" =>
         calls[c].out = calculateRiskScore(argBody(celestialBodies, calls[c].arg))

\* Two calls on different objects, one finished while the other is midway.
C12_Witness ==
  /\ calls[1].pc = "done"
  /\ calls[1].arg = 4
  /\ calls[1].out.kind = "returned"
  /\ calls[1].out.value.score = 83
  /\ calls[2].pc = "size"
  /\ calls[2].arg = 1

\* C13: with a non-empty allBodies, for delta = score(body) - mean score
\* of allBodies, the trend is ABOVE_AVERAGE iff delta > 15, BELOW_AVERAGE
\* iff delta < -15 and AVERAGE otherwise; a delta of exactly 15 or -15 is
\* AVERAGE.
C13_TrendBand ==
  (trendAll # <<>> /\ trend.kind = "returned") =>
    LET n == Len(trendAll)
        sum == SumScores([i \in 1..n |->
                            calculateRiskScore(trendAll[i]).value])
        deltaTimesN == calculateRiskScore(trendBody).value.score * n - sum
    IN  /\ trend.value.trend = "ABOVE_AVERAGE" <=> deltaTimesN > 15 * n
        /\ trend.value.trend = "BELOW_AVERAGE" <=> deltaTimesN < -15 * n
        /\ trend.value.trend = "AVERAGE" <=>
             (deltaTimesN >= -15 * n /\ deltaTimesN <= 15 * n)

\* A body scoring 40 against a fleet averaging 25: delta is exactly 15.
C13_Witness ==
  /\ trend.kind = "returned"
  /\ trend.value.current = 40
  /\ trend.value.average = Num(25)
  /\ Len(trendAll) = 1
  /\ trend.value.trend = "AVERAGE"

\* Objects for which the list holds an alert.
AlertedIds == {alerts[i].objectId : i \in 1..Len(alerts)}

DismissedSet == {dismissedIds[i] : i \in 1..Len(dismissedIds)}

C15_DismissedStaysHidden ==
  [][ \A i \in 1..Len(celestialBodies) :
        LET id == celestialBodies[i].id
        IN  /\ dismissNotification(alertIdOf(id)) =>
                 (id \in DismissedSet' /\ id \notin AlertedIds')
            /\ (id \in DismissedSet /\ ~ClearDismissed /\ ~ResetNotifications)
                 => (id \in DismissedSet' /\ id \notin AlertedIds') ]_vars

\* The object whose id contains 'alert-' is dismissed and stays hidden after
\* a reload, while its approach is still ahead.
C15_Witness ==
  /\ <<"red-", "alert-", "7">> \in DismissedSet
  /\ localStorage.dismissedNotifications.k = "string"
  /\ ~hasViewedPanel
  /\ lastViewedTime # NullTime
  /\ renderedAt = 1
  /\ <<"red-", "alert-", "7">> \notin AlertedIds

\* C16: after markAsViewed has run no alert that was in the list at that
\* moment is counted in unreadCount, and when the list holds the same
\* alerts as before the count is 0.
C16_ViewingMarksRead ==
  [][ markAsViewed =>
        /\ \A j \in 1..Len(alerts') :
             alerts'[j].objectId \in AlertedIds =>
               ~(~hasViewedPanel' \/ alerts'[j].isNew)
        /\ AlertedIds' = AlertedIds =>
             unreadCount(alerts', hasViewedPanel') = 0 ]_vars

\* C19: the list is ordered by risk level, HIGH before MEDIUM before LOW,
\* and within a level by daysUntilApproach ascending.
C19_AlertsSorted ==
  \A i \in 1..Len(alerts) : \A j \in 1..Len(alerts) :
    i < j =>
      LET a == alerts[i]
          b == alerts[j]
          rank(l) == CASE l = "HIGH" -> 3 [] l = "MEDIUM" -> 2 [] l = "LOW" -> 1
      IN  \/ rank(a.riskLevel) > rank(b.riskLevel)
          \/ /\ rank(a.riskLevel) = rank(b.riskLevel)
             /\ a.daysUntilApproach <= b.daysUntilApproach

\* HIGH first, then the two MEDIUM alerts, the sooner first, although the
\* catalog lists them the other way round.
C19_Witness ==
  /\ Len(alerts) = 3
  /\ alerts[1].riskLevel = "HIGH"
  /\ alerts[2].riskLevel = "MEDIUM"
  /\ alerts[2].objectId = <<"red-", "alert-", "7">>
  /\ alerts[3].riskLevel = "MEDIUM"
  /\ alerts[2].daysUntilApproach < alerts[3].daysUntilApproach

\* C20: while markAsViewed has not run since the hook was initialised or
\* reset, unreadCount equals alerts.length; and always
\* 0 <= unreadCount <= alerts.length.
C20_UnreadCount ==
  /\ ~hasViewedPanel => unreadCount(alerts, hasViewedPanel) = Len(alerts)
  /\ unreadCount(alerts, hasViewedPanel) \in 0..Len(alerts)

\* After a reset that followed a view, with alerts listed.
C20_Witness ==
  /\ ~hasViewedPanel
  /\ lastViewedTime = NullTime
  /\ now > 0
  /\ Len(alerts) = 2
  /\ unreadCount(alerts, hasViewedPanel) = 2

\* C17: DashboardPage is rendered only once the auth check has finished
\* and user is non-null; with the check finished and user null the route
\* '/' redirects to '/login'; while the check is running neither the
\* dashboard nor the redirect is produced.
C17_DashboardNeedsAuth ==
  LET view == rendered(path, user, loading)
  IN  /\ view = "DashboardPage" => (~loading /\ user # NoUser)
      /\ (path = "/" /\ ~loading /\ user = NoUser) => view = "Navigate /login"
      /\ (path = "/" /\ loading) => view \notin {"DashboardPage", "Navigate /login"}

\* A signed-in user's check is still running on '/': the user is already
\* set, loading is still true, and the spinner shows.
C17_Witness ==
  /\ path = "/"
  /\ loading
  /\ user = User("nova")
  /\ authPc = "finally"
  /\ rendered(path, user, loading) = "Spinner"

NonNegativeBody(b) ==
  /\ b.k = "object"
  /\ b.distanceFromEarth.k = "num" /\ b.distanceFromEarth.v >= 0
  /\ b.velocity.k = "num" /\ b.velocity.v >= 0
  /\ b.radius.k = "num" /\ b.radius.v >= 0

Percent(c) == c.k = "num" /\ c.v \in 0..100

\* C21: for a body with numeric non-negative distanceFromEarth, velocity
\* and radius, each of the three contributions returned by
\* explainRiskFactors is a percentage in [0, 100].
C21_ContributionsArePercentages ==
  NonNegativeBody(selectedBody) =>
    /\ explanation.kind = "returned"
    /\ Percent(explanation.value.factors.velocity.contribution)
    /\ Percent(explanation.value.factors.distance.contribution)
    /\ Percent(explanation.value.factors.size.contribution)

\* C22: the auth check of a mounted AuthProvider completes whatever the
\* fetch of /auth/user settles with: unless the page is left, loading
\* becomes false; and user becomes non-null only on a response with ok
\* status and success = true.
C22_CheckAuthCompletes ==
  /\ \A m \in 1..MaxMounts :
       (mounts = m /\ loading) ~> (mounts # m \/ ~loading)
  /\ [][ (user = NoUser /\ user' # NoUser) =>
           /\ fetched'.call = "checkAuth"
           /\ fetched'.kind = "response"
           /\ fetched'.ok
           /\ fetched'.success ]_vars

\* The fetch was rejected and the check has completed without a user.
C22_Witness ==
  /\ fetched = Rejection("checkAuth")
  /\ ~loading
  /\ user = NoUser
  /\ error = "Failed to fetch"

\* C23: logout sets user to null only when the response to POST
\* /auth/logout has an ok status; when the request throws or the response
\* is not ok, user and isAuthenticated stay as they were.
C23_LogoutOnlyOnOk ==
  [][ LogoutSettles =>
        /\ (user' = NoUser /\ user # NoUser) =>
             (fetched'.kind = "response" /\ fetched'.ok)
        /\ (fetched'.kind = "throws" \/ ~fetched'.ok) =>
             /\ user' = user
             /\ isAuthenticatedValue(user') = isAuthenticatedValue(user) ]_vars

\* A logout whose response was not ok has left the user signed in.
C23_Witness ==
  /\ fetched = Response("logout", 500, TRUE, FALSE, NoUser)
  /\ user = User("astro")
  /\ isAuthenticatedValue(user)
  /\ logoutPc = "idle"

=============================================================================
